---- MODULE Spec2Model ----
(***************************************************************************)
(* Momentum-contrast models (MoCoModel / MCPModel of model/loader.py) and  *)
(* the contrastive losses of train_cl.py / train_simclr.py.                *)
(*                                                                         *)
(* Tensors are functions over 0-based index ranges, as in the source.      *)
(* Encoder outputs are symbolic terms (the backbone is opaque);            *)
(* parameters are exact rationals <<numerator, denominator>>.              *)
(***************************************************************************)
EXTENDS Integers, Sequences, FiniteSets, Bags, TLC

\* ---------------------------------------------------------------- bounds
QueueSize == 4      \* queue_size constructor argument (default 16384), scaled down
EmbedDim == 2       \* embeddim constructor argument (default 256), scaled down
MaxBatch == 3       \* largest batch the loader hands to forward
MaxSteps == 3       \* number of forward calls explored
NumParams == 2      \* number of parameter tensors per encoder
NumSignals == 3     \* samples of the dataset
MaxViews == 3       \* largest number of views in a batch

Signals == 1..NumSignals
\* momentum constructor argument, a rational in (0,1) (default 0.999)
MomentumArgs == {<<1, 2>>, <<3, 4>>}
\* value of query parameter p right after the backbone's random initialisation
ParamInit(p) == <<p, 1>>
\* per-parameter change made by one optimizer step
ParamDeltas == {[p \in 0..(NumParams - 1) |-> 2 * (p + 1)]}

\* ------------------------------------------------------- exact arithmetic
Abs(n) == IF n < 0 THEN -n ELSE n

Min(a, b) == IF a < b THEN a ELSE b

RECURSIVE GCD(_, _)
GCD(a, b) == IF b = 0 THEN a ELSE GCD(b, a % b)

\* a rational in lowest terms with a positive denominator
Rat(n, d) ==
  LET g == GCD(Abs(n), Abs(d))
      s == IF d < 0 THEN -1 ELSE 1
  IN <<(s * n) \div g, (s * d) \div g>>

RatMul(a, b) == Rat(a[1] * b[1], a[2] * b[2])

RatAdd(a, b) == Rat(a[1] * b[2] + b[1] * a[2], a[2] * b[2])

RatSub(a, b) == Rat(a[1] * b[2] - b[1] * a[2], a[2] * b[2])

RatOne == <<1, 1>>

\* ------------------------------------------------------------ tensor ops
Range0(n) == 0..(n - 1)

Size(t) == Cardinality(DOMAIN t)

\* t[ind] with an index tensor (x[1, idx, ...], k[torch.argsort(idx)])
Gather(t, ind) == [i \in DOMAIN ind |-> t[ind[i]]]

\* number of elements sorted before position j (ties by position)
Rank(a, j) ==
  Cardinality({l \in DOMAIN a : a[l] < a[j] \/ (a[l] = a[j] /\ l < j)})

\* slip: the shuffle index reused as its own inverse (k[idx])
Argsort_Reused(a) == a

\* torch.argsort: at position r the index of the r-th smallest element
Argsort(a) == [r \in DOMAIN a |-> CHOOSE j \in DOMAIN a : Rank(a, j) = r]

\* torch.randperm(n): the permutations of 0..n-1
RandPerm(n) ==
  {f \in [Range0(n) -> Range0(n)] : \A i, j \in Range0(n) : f[i] = f[j] => i = j}

\* keys.T of a (batch, embeddim) matrix
Transpose(keys) ==
  [h \in Range0(EmbedDim) |-> [b \in DOMAIN keys |-> keys[b][h]]]

\* x.permute(1, 0, 2, 3) of a (B, N, C, S) batch: views first
Permute(x) ==
  [v \in DOMAIN x[CHOOSE b \in DOMAIN x : TRUE] |-> [b \in DOMAIN x |-> x[b][v]]]

\* the samples of one loader batch: B consecutive samples of the dataset
BatchSamples(first, B) ==
  [b \in Range0(B) |-> ((first + b - 1) % NumSignals) + 1]

\* the loader's batch: V augmented views of every sample
MakeBatch(samples, V) ==
  [b \in DOMAIN samples |-> [v \in Range0(V) |-> [sample |-> samples[b], view |-> v]]]

\* encoder applied to a batch: one embedding row per input row
Encode(params, batch) ==
  [b \in DOMAIN batch |->
     [h \in Range0(EmbedDim) |-> [enc |-> params, inp |-> batch[b], dim |-> h]]]

\* nn.functional.normalize(k, dim=1): every row divided by its L2 norm
Normalize(m) ==
  [b \in DOMAIN m |-> [h \in Range0(EmbedDim) |-> [num |-> m[b][h], norm |-> m[b]]]]

\* ------------------------------------------------------------ model state
VARIABLES momentum, encoder_q, encoder_k, queue, queue_ptr,
          pc, err, nsteps, x2, idx, k, pre, enqueued,
          task, nviews, crit_args, checkpoint,
          args, ret

mvars == <<momentum, encoder_q, encoder_k, queue, queue_ptr,
           pc, err, nsteps, x2, idx, k, pre, enqueued,
           task, nviews, crit_args, checkpoint>>
lvars == <<args, ret>>
vars == <<momentum, encoder_q, encoder_k, queue, queue_ptr,
          pc, err, nsteps, x2, idx, k, pre, enqueued,
          task, nviews, crit_args, checkpoint, args, ret>>

\* the tasks of load_model that build a momentum model
Tasks == {"moco", "mcp"}

None == <<>>

\* torch.randn(embeddim, queue_size), normalised over dim 0
InitQueue ==
  [h \in Range0(EmbedDim) |-> [c \in Range0(QueueSize) |-> [rand |-> c, dim |-> h]]]

Snapshot == [queue |-> queue, queue_ptr |-> queue_ptr,
             encoder_q |-> encoder_q, encoder_k |-> encoder_k]

\* slip: the two weights exchanged
UpdateKeyEncoder_Swapped(pq, pk, m) ==
  [p \in DOMAIN pk |->
     RatAdd(RatMul(pk[p], RatSub(RatOne, m)), RatMul(pq[p], m))]

\* MoCoModel._update_key_encoder / MCPModel._update_key_encoder
UpdateKeyEncoder(pq, pk, m) ==
  [p \in DOMAIN pk |->
     RatAdd(RatMul(pk[p], m), RatMul(pq[p], RatSub(RatOne, m)))]

\* slip: the pointer advances without wrapping
UpdateQueue_NoWrap(qu, ptr, keys) ==
  LET batch_size == Size(keys)
      stop == Min(ptr + batch_size, QueueSize)
      kt == Transpose(keys)
  IN IF QueueSize % batch_size # 0
     THEN [err |-> "AssertionError", queue |-> qu, queue_ptr |-> ptr]
     ELSE IF stop - ptr # batch_size /\ batch_size # 1
     THEN [err |-> "RuntimeError", queue |-> qu, queue_ptr |-> ptr]
     ELSE [err |-> "none",
           queue |-> [h \in Range0(EmbedDim) |->
                        [c \in Range0(QueueSize) |->
                           IF ptr <= c /\ c < stop
                           THEN kt[h][IF batch_size = 1 THEN 0 ELSE c - ptr]
                           ELSE qu[h][c]]],
           queue_ptr |-> ptr + batch_size]

\* slip: the slice always starts at column 0
UpdateQueue_FromZero(qu, ptr, keys) ==
  LET batch_size == Size(keys)
      kt == Transpose(keys)
  IN IF QueueSize % batch_size # 0
     THEN [err |-> "AssertionError", queue |-> qu, queue_ptr |-> ptr]
     ELSE [err |-> "none",
           queue |-> [h \in Range0(EmbedDim) |->
                        [c \in Range0(QueueSize) |->
                           IF c < batch_size THEN kt[h][c] ELSE qu[h][c]]],
           queue_ptr |-> (ptr + batch_size) % QueueSize]

\* slip: the divisibility check placed after the write
UpdateQueue_LateAssert(qu, ptr, keys) ==
  LET batch_size == Size(keys)
      stop == Min(ptr + batch_size, QueueSize)
      kt == Transpose(keys)
      written == [h \in Range0(EmbedDim) |->
                    [c \in Range0(QueueSize) |->
                       IF ptr <= c /\ c < stop
                       THEN kt[h][IF stop - ptr = batch_size THEN c - ptr ELSE 0]
                       ELSE qu[h][c]]]
  IN IF QueueSize % batch_size # 0
     THEN [err |-> "AssertionError", queue |-> written,
           queue_ptr |-> (ptr + batch_size) % QueueSize]
     ELSE IF stop - ptr # batch_size /\ batch_size # 1
     THEN [err |-> "RuntimeError", queue |-> qu, queue_ptr |-> ptr]
     ELSE [err |-> "none", queue |-> written,
           queue_ptr |-> (ptr + batch_size) % QueueSize]

\* MoCoModel._update_queue / MCPModel._update_queue
UpdateQueue(qu, ptr, keys) ==
  LET batch_size == Size(keys)
      stop == Min(ptr + batch_size, QueueSize)
      kt == Transpose(keys)
  IN IF QueueSize % batch_size # 0
     THEN [err |-> "AssertionError", queue |-> qu, queue_ptr |-> ptr]
     ELSE IF stop - ptr # batch_size /\ batch_size # 1
     THEN [err |-> "RuntimeError", queue |-> qu, queue_ptr |-> ptr]
     ELSE [err |-> "none",
           queue |-> [h \in Range0(EmbedDim) |->
                        [c \in Range0(QueueSize) |->
                           IF ptr <= c /\ c < stop
                           THEN kt[h][IF batch_size = 1 THEN 0 ELSE c - ptr]
                           ELSE qu[h][c]]],
           queue_ptr |-> (ptr + batch_size) % QueueSize]

\* the keys of MoCoModel.forward / MCPModel.forward (the no_grad block)
ForwardKeys(x, pk, perm) ==
  LET kraw == Encode(pk, Gather(x[1], perm))
  IN Normalize(Gather(kraw, Argsort(perm)))

\* slip: the keys computed before the momentum update
KeyPath_UpdateAfter(pq, pk, m, x, perm) ==
  [encoder_k |-> UpdateKeyEncoder(pq, pk, m), k |-> ForwardKeys(x, pk, perm)]

\* the no_grad block of MoCoModel.forward / MCPModel.forward: momentum
\* update, then shuffled key forward pass and un-shuffle
KeyPath(pq, pk, m, x, perm) ==
  LET ek == UpdateKeyEncoder(pq, pk, m)
  IN [encoder_k |-> ek, k |-> ForwardKeys(x, ek, perm)]

\* the queries of MoCoModel.forward / MCPModel.forward
Queries(pq, x) == Normalize(Encode(pq, x[0]))

\* logits of MoCoModel.forward: column 0 the positive, then the queue
Logits(qs, keys, qu) ==
  [n \in DOMAIN qs |->
     [j \in 0..QueueSize |->
        IF j = 0 THEN <<"dot", qs[n], keys[n]>>
        ELSE <<"dot", qs[n], [h \in Range0(EmbedDim) |-> qu[h][j - 1]]>>]]

\* slip: the key parameters left trainable
RequiresGrad_All(name) == TRUE

\* requires_grad of the parameters of a sub-module after __init__
RequiresGrad(name) == name # "encoder_k"

\* optimizer.step() of Adam over model.parameters(): a parameter without a
\* gradient is skipped
AdamStep(obj, d) ==
  [name \in {"encoder_q", "encoder_k"} |->
     IF RequiresGrad(name)
     THEN [p \in DOMAIN obj[name] |-> RatAdd(obj[name][p], <<d[p], 1>>)]
     ELSE obj[name]]

\* slip: the pointer kept as a plain attribute, not a registered buffer
StateDictKeys_NoPointer == {"encoder_q", "encoder_k", "queue"}

\* the entries of model.state_dict(): parameters and registered buffers
StateDictKeys == {"encoder_q", "encoder_k", "queue", "queue_ptr"}

\* model.state_dict()
StateDict(obj) == [key \in StateDictKeys |-> obj[key]]

\* save_checkpoint / torch.load: the file holds what was saved
CheckpointFile(cp) == [epoch |-> cp.epoch, model |-> cp.model]

\* a model right after load_model(...)
FreshModel ==
  [encoder_q |-> [p \in Range0(NumParams) |-> ParamInit(p)],
   encoder_k |-> [p \in Range0(NumParams) |-> ParamInit(p)],
   queue |-> InitQueue,
   queue_ptr |-> 0]

\* model.load_state_dict(sd)
LoadStateDict(obj, sd) ==
  [key \in DOMAIN obj |-> IF key \in DOMAIN sd THEN sd[key] ELSE obj[key]]

ModelInit ==
  /\ momentum \in MomentumArgs
  /\ task \in Tasks
  /\ encoder_q = FreshModel.encoder_q
  /\ encoder_k = FreshModel.encoder_k
  /\ queue = FreshModel.queue
  /\ queue_ptr = FreshModel.queue_ptr
  /\ pc = "ready"
  /\ err = "none"
  /\ nsteps = 0
  /\ x2 = None
  /\ idx = None
  /\ k = None
  /\ pre = None
  /\ enqueued = <<>>
  /\ nviews = 0
  /\ crit_args = None
  /\ checkpoint = None

Init == ModelInit /\ args = None /\ ret = None

\* outputs = model(signals) of train with MoCoModel.forward on one batch
Forward ==
  /\ task = "moco"
  /\ pc \in {"ready", "resumed"}
  /\ nsteps < MaxSteps
  /\ \E V \in 1..MaxViews : \E B \in 1..MaxBatch : \E first \in Signals :
       \E x \in {Permute(MakeBatch(BatchSamples(first, B), V))} :
       \E qs \in {Queries(encoder_q, x)} :
          /\ pre' = Snapshot
          /\ nviews' = V
          /\ IF V < 2
             THEN \* x[1] does not exist: IndexError after the momentum update
                  /\ encoder_k' = UpdateKeyEncoder(encoder_q, encoder_k, momentum)
                  /\ x2' = None
                  /\ idx' = None
                  /\ k' = None
                  /\ crit_args' = None
                  /\ err' = "IndexError"
                  /\ pc' = "failed"
                  /\ UNCHANGED <<queue, queue_ptr, enqueued>>
             ELSE \E perm \in RandPerm(B) :
                    \E kp \in {KeyPath(encoder_q, encoder_k, momentum, x, perm)} :
                    \E r \in {UpdateQueue(queue, queue_ptr, kp.k)} :
                       /\ encoder_k' = kp.encoder_k
                       /\ x2' = x[1]
                       /\ idx' = perm
                       /\ k' = kp.k
                       /\ queue' = r.queue
                       /\ queue_ptr' = r.queue_ptr
                       /\ err' = r.err
                       /\ pc' = IF r.err = "none" THEN "stepped" ELSE "failed"
                       /\ crit_args' = IF r.err = "none"
                                       THEN <<Logits(qs, kp.k, queue)>> ELSE None
                       /\ enqueued' = IF r.err = "none"
                                      THEN Append(enqueued, kp.k) ELSE enqueued
  /\ nsteps' = nsteps + 1
  /\ checkpoint' = None
  /\ UNCHANGED <<momentum, encoder_q, task, args, ret>>

\* model(signals, heads) of train for task mcp: MCPModel.forward takes one
\* argument, the call raises before the body runs
TrainStepMcp ==
  /\ task = "mcp"
  /\ pc \in {"ready", "resumed"}
  /\ nsteps < MaxSteps
  /\ \E V \in 1..MaxViews : nviews' = V
  /\ pre' = Snapshot
  /\ err' = "TypeError"
  /\ pc' = "failed"
  /\ nsteps' = nsteps + 1
  /\ UNCHANGED <<momentum, encoder_q, encoder_k, queue, queue_ptr, x2, idx, k,
                 enqueued, task, crit_args, checkpoint, args, ret>>

\* criterion(outputs); loss.backward(); optimizer.step() of train
OptimizerStep ==
  /\ pc = "stepped"
  /\ \E d \in ParamDeltas :
       LET new == AdamStep(Snapshot, d)
       IN /\ encoder_q' = new.encoder_q
          /\ encoder_k' = new.encoder_k
  /\ pc' = "ready"
  /\ x2' = None
  /\ idx' = None
  /\ k' = None
  /\ nviews' = 0
  /\ crit_args' = None
  /\ UNCHANGED <<momentum, queue, queue_ptr, err, nsteps, pre, enqueued,
                 task, checkpoint, args, ret>>

\* the periodic checkpoint of main; the run ends here and the checkpoint
\* waits for --resume
SaveCheckpoint ==
  /\ pc = "ready"
  /\ nsteps >= 1
  /\ checkpoint' = [file |-> CheckpointFile([epoch |-> nsteps, model |-> StateDict(Snapshot)]),
                    saved |-> Snapshot]
  /\ pc' = "saved"
  /\ UNCHANGED <<momentum, encoder_q, encoder_k, queue, queue_ptr, err, nsteps,
                 x2, idx, k, pre, enqueued, task, nviews, crit_args, args, ret>>

\* main with --resume: a fresh model, then model.load_state_dict
Resume ==
  /\ pc = "saved"
  /\ LET m == LoadStateDict(FreshModel, checkpoint.file.model)
     IN /\ encoder_q' = m.encoder_q
        /\ encoder_k' = m.encoder_k
        /\ queue' = m.queue
        /\ queue_ptr' = m.queue_ptr
  /\ pc' = "resumed"
  /\ pre' = None
  /\ UNCHANGED <<momentum, err, nsteps, x2, idx, k, enqueued, task, nviews,
                 crit_args, checkpoint, args, ret>>

Next == Forward \/ TrainStepMcp \/ OptimizerStep \/ SaveCheckpoint \/ Resume

Spec == Init /\ [][Next]_vars

\* ------------------------------------------------------------ loss engine
\* A real quantity is kept as the bag of its summands: <<"exp", r>> is
\* exp(r), <<"lin", r>> is r itself, <<"eps", e>> the constant 1e-12;
\* r is an exact rational.  Sums are bag sums, 0 is the empty bag.
MaxLossBatch == 2   \* largest batch handed to simclr_loss / mcp_loss
MaxCmscBatch == 4   \* largest batch handed to cmsc_loss
QueueLen == 2       \* columns of query_queue
NumIds == 3         \* distinct patient identities (heads)

Ids == 1..NumIds
\* raw embedding rows (integer L2 norm)
Vecs == {<<2, 0>>, <<0, 1>>, <<-1, 0>>, <<3, 4>>}
Vecs2 == {<<2, 0>>, <<3, 4>>}
\* tao = 0.1
Tao == <<1, 10>>
Eps == SetToBag({<<"eps", <<1, 1000000>>>>})

RatDiv(a, b) == Rat(a[1] * b[2], a[2] * b[1])

ISqrt(n) == CHOOSE r \in 0..n : r * r = n

\* torch.nn.functional.normalize(view, dim=-1) on numeric rows
NormalizeRows(m) ==
  [b \in DOMAIN m |->
     LET n == ISqrt(m[b][1] * m[b][1] + m[b][2] * m[b][2])
     IN [h \in 1..2 |-> IF n = 0 THEN <<0, 1>> ELSE Rat(m[b][h], n)]]

Dot(u, v) == RatAdd(RatMul(u[1], v[1]), RatMul(u[2], v[2]))

\* torch.matmul(a, b.T)
MatMulT(a, b) == [i \in DOMAIN a |-> [j \in DOMAIN b |-> Dot(a[i], b[j])]]

\* m /= tao (m /= 0.1)
DivTao(m) == [i \in DOMAIN m |-> [j \in DOMAIN m[i] |-> RatDiv(m[i][j], Tao)]]

ScaledSim(a, b) == DivTao(MatMulT(a, b))

\* torch.exp, elementwise
Exp(m) == [i \in DOMAIN m |-> [j \in DOMAIN m[i] |-> SetToBag({<<"exp", m[i][j]>>})]]

RECURSIVE SumOver(_, _)
SumOver(f, S) ==
  IF S = {} THEN EmptyBag
  ELSE LET i == CHOOSE i \in S : TRUE IN f[i] (+) SumOver(f, S \ {i})

Cols(m) == IF DOMAIN m = {} THEN {} ELSE DOMAIN m[CHOOSE i \in DOMAIN m : TRUE]

\* torch.sum(m, dim=1)
RowSum(m) == [i \in DOMAIN m |-> SumOver(m[i], DOMAIN m[i])]

\* torch.sum(m, dim=0)
ColSum(m) == [j \in Cols(m) |-> SumOver([i \in DOMAIN m |-> m[i][j]], DOMAIN m)]

\* torch.triu(m, d) / np.triu(m, d): entries below the d-th diagonal zeroed
Triu(m, d, zero) ==
  [i \in DOMAIN m |-> [j \in DOMAIN m[i] |-> IF j - i >= d THEN m[i][j] ELSE zero]]

\* torch.tril(m, d) / np.tril(m, d): entries above the d-th diagonal zeroed
Tril(m, d, zero) ==
  [i \in DOMAIN m |-> [j \in DOMAIN m[i] |-> IF j - i <= d THEN m[i][j] ELSE zero]]

\* torch.triu(m, 1) + torch.tril(m, -1) on a matrix of quantities
OffDiagonal(m) ==
  [i \in DOMAIN m |-> [j \in DOMAIN m[i] |->
     Triu(m, 1, EmptyBag)[i][j] (+) Tril(m, -1, EmptyBag)[i][j]]]

\* np.equal.outer(a, b).astype(int)
EqualOuter(a, b) ==
  [i \in DOMAIN a |-> [j \in DOMAIN b |-> IF a[i] = b[j] THEN 1 ELSE 0]]

\* np.where(m): the positions of the non-zero entries, row-major
Where(m) ==
  LET S == {p \in (DOMAIN m) \X Cols(m) : m[p[1]][p[2]] # 0}
      n == Cardinality(Cols(m))
      Before(p) == Cardinality({q \in S : q[1] * n + q[2] < p[1] * n + p[2]})
  IN [r \in Range0(Cardinality(S)) |-> CHOOSE p \in S : Before(p) = r]

\* torch.diagonal
Diagonal(m) == [i \in DOMAIN m |-> m[i][i]]

BagOf(f) ==
  [e \in {f[i] : i \in DOMAIN f} |-> Cardinality({i \in DOMAIN f : f[i] = e})]

\* -torch.mean(torch.log((num + eps)/(den + eps))): the mean is kept as the
\* bag of its log-ratios
NegMeanLog(num, den) ==
  [mean |-> BagOf([i \in DOMAIN num |-> [num |-> num[i] (+) Eps, den |-> den[i] (+) Eps]])]

\* slip: both directions normalised by the row sums
simclr_loss_RowsTwice(outputs) ==
  LET view1 == NormalizeRows(outputs[0])
      view2 == NormalizeRows(outputs[1])
      sim_matrix_exp == Exp(ScaledSim(view1, view2))
      sim_matrix_od1 == OffDiagonal(Exp(ScaledSim(view1, view1)))
      sim_matrix_od2 == OffDiagonal(Exp(ScaledSim(view2, view2)))
      rs == RowSum(sim_matrix_exp)
      denominator1 == [i \in DOMAIN rs |-> rs[i] (+) RowSum(sim_matrix_od1)[i]]
      denominator2 == [i \in DOMAIN rs |-> rs[i] (+) ColSum(sim_matrix_od2)[i]]
      diags == Diagonal(sim_matrix_exp)
  IN [terms |-> <<NegMeanLog(diags, denominator1), NegMeanLog(diags, denominator2)>>,
      num_loss |-> 2]

\* simclr_loss of train_cl.py and of train_simclr.py (the same code)
simclr_loss(outputs) ==
  LET view1 == NormalizeRows(outputs[0])
      view2 == NormalizeRows(outputs[1])
      sim_matrix_exp == Exp(ScaledSim(view1, view2))
      sim_matrix_od1 == OffDiagonal(Exp(ScaledSim(view1, view1)))
      sim_matrix_od2 == OffDiagonal(Exp(ScaledSim(view2, view2)))
      rs == RowSum(sim_matrix_exp)
      cs == ColSum(sim_matrix_exp)
      denominator1 == [i \in DOMAIN rs |-> rs[i] (+) RowSum(sim_matrix_od1)[i]]
      denominator2 == [i \in DOMAIN cs |-> cs[i] (+) ColSum(sim_matrix_od2)[i]]
      diags == Diagonal(sim_matrix_exp)
  IN [terms |-> <<NegMeanLog(diags, denominator1), NegMeanLog(diags, denominator2)>>,
      num_loss |-> 2]

\* the scalar a loss record stands for: the sum of its terms over num_loss
LossValue(l) == [sum |-> BagOf(l.terms), div |-> l.num_loss]

\* the model variables while only a loss function runs
IdleModel == ModelInit /\ momentum = <<1, 2>> /\ task = "moco"

InitSimclr ==
  /\ IdleModel
  /\ \E B \in 1..MaxLossBatch :
       args \in [outputs : [Range0(2) -> [Range0(B) -> Vecs]]]
  /\ ret = None

CallSimclrLoss ==
  /\ ret = None
  /\ ret' = simclr_loss(args.outputs)
  /\ UNCHANGED <<mvars, args>>

NextSimclr == CallSimclrLoss

SpecSimclr == InitSimclr /\ [][NextSimclr]_vars

\* slip: the lower off-diagonal term added without counting it
cmsc_loss_Uncounted(outputs, heads) ==
  LET pos_matrix == EqualOuter(heads, heads)
      view1 == NormalizeRows(outputs[0])
      view2 == NormalizeRows(outputs[1])
      sim_matrix_exp == Exp(ScaledSim(view1, view2))
      row_sum == RowSum(sim_matrix_exp)
      col_sum == ColSum(sim_matrix_exp)
      diags == Diagonal(sim_matrix_exp)
      lossd1 == NegMeanLog(diags, row_sum)
      lossd2 == NegMeanLog(diags, col_sum)
      upper == Where(Triu(pos_matrix, 1, 0))
      lower == Where(Tril(pos_matrix, -1, 0))
      lossou == NegMeanLog([n \in DOMAIN upper |-> sim_matrix_exp[upper[n][1]][upper[n][2]]],
                           [n \in DOMAIN upper |-> row_sum[upper[n][1]]])
      lossol == NegMeanLog([n \in DOMAIN lower |-> sim_matrix_exp[lower[n][1]][lower[n][2]]],
                           [n \in DOMAIN lower |-> col_sum[lower[n][2]]])
      hasu == Size(upper) > 0
      hasl == Size(lower) > 0
  IN [terms |-> <<lossd1, lossd2>> \o (IF hasu THEN <<lossou>> ELSE <<>>)
                  \o (IF hasl THEN <<lossol>> ELSE <<>>),
      num_loss |-> 2 + (IF hasu THEN 1 ELSE 0)]

\* cmsc_loss of train_cl.py
cmsc_loss(outputs, heads) ==
  LET pos_matrix == EqualOuter(heads, heads)
      view1 == NormalizeRows(outputs[0])
      view2 == NormalizeRows(outputs[1])
      sim_matrix_exp == Exp(ScaledSim(view1, view2))
      row_sum == RowSum(sim_matrix_exp)
      col_sum == ColSum(sim_matrix_exp)
      diags == Diagonal(sim_matrix_exp)
      lossd1 == NegMeanLog(diags, row_sum)
      lossd2 == NegMeanLog(diags, col_sum)
      upper == Where(Triu(pos_matrix, 1, 0))
      lower == Where(Tril(pos_matrix, -1, 0))
      lossou == NegMeanLog([n \in DOMAIN upper |-> sim_matrix_exp[upper[n][1]][upper[n][2]]],
                           [n \in DOMAIN upper |-> row_sum[upper[n][1]]])
      lossol == NegMeanLog([n \in DOMAIN lower |-> sim_matrix_exp[lower[n][1]][lower[n][2]]],
                           [n \in DOMAIN lower |-> col_sum[lower[n][2]]])
      hasu == Size(upper) > 0
      hasl == Size(lower) > 0
  IN [terms |-> <<lossd1, lossd2>> \o (IF hasu THEN <<lossou>> ELSE <<>>)
                  \o (IF hasl THEN <<lossol>> ELSE <<>>),
      num_loss |-> 2 + (IF hasu THEN 1 ELSE 0) + (IF hasl THEN 1 ELSE 0)]

\* two-view embeddings of a batch of B samples; the rows of a view repeat
\* with period 2
CmscOutputs(B) ==
  {[v \in Range0(2) |-> [b \in Range0(B) |-> e[v][b % 2]]] :
     e \in [Range0(2) -> [Range0(2) -> Vecs2]]}

InitCmsc ==
  /\ IdleModel
  /\ \E B \in 1..MaxCmscBatch :
       args \in [outputs : CmscOutputs(B), heads : [Range0(B) -> Ids]]
  /\ ret = None

CallCmscLoss ==
  /\ ret = None
  /\ ret' = cmsc_loss(args.outputs, args.heads)
  /\ UNCHANGED <<mvars, args>>

NextCmsc == CallCmscLoss

SpecCmsc == InitCmsc /\ [][NextCmsc]_vars

\* torch.concat([a, b], dim=1) followed by torch.sum(..., dim=1)
RowSumConcat(a, b) == [i \in DOMAIN a |-> RowSum(a)[i] (+) RowSum(b)[i]]

\* torch.diagonal of an un-exponentiated matrix
LinDiagonal(m) == [i \in DOMAIN m |-> SetToBag({<<"lin", m[i][i]>>})]

\* mcp_loss of train_cl.py, returned with its locals
mcp_loss_train_cl(query_key, query_queue, queue_heads, heads) ==
  LET pos_matrix1 == EqualOuter(heads, heads)
      pos_matrix2 == EqualOuter(heads, queue_heads)
      qk == DivTao(query_key)
      qq == DivTao(query_queue)
      query_key_exp == Exp(qk)
      query_queue_exp == Exp(qq)
      denominator == RowSum(query_queue_exp)
      diags == LinDiagonal(qk)
      loss0 == NegMeanLog(diags, denominator)
      rc1 == Where(Triu(pos_matrix1, 1, 0))
      loss1 == NegMeanLog([n \in DOMAIN rc1 |-> query_key_exp[rc1[n][1]][rc1[n][2]]],
                          [n \in DOMAIN rc1 |-> denominator[rc1[n][1]]])
      rc2 == Where(pos_matrix2)
      loss2 == NegMeanLog([n \in DOMAIN rc2 |-> query_queue_exp[rc2[n][1]][rc2[n][2]]],
                          [n \in DOMAIN rc2 |-> denominator[rc2[n][1]]])
      has1 == Size(rc1) > 0
      has2 == Size(rc2) > 0
  IN [fn |-> "train_cl",
      terms |-> <<loss0>> \o (IF has1 THEN <<loss1>> ELSE <<>>)
                  \o (IF has2 THEN <<loss2>> ELSE <<>>),
      num_loss |-> 1 + (IF has1 THEN 1 ELSE 0) + (IF has2 THEN 1 ELSE 0),
      denominator |-> denominator, rc1 |-> rc1, rc2 |-> rc2]

\* mcp_loss of train_simclr.py, returned with its locals; the sum of the
\* terms is returned undivided
mcp_loss_train_simclr(query_key, query_queue, queue_heads, heads) ==
  LET pos_matrix1 == EqualOuter(heads, heads)
      pos_matrix2 == EqualOuter(heads, queue_heads)
      qk == DivTao(query_key)
      qq == DivTao(query_queue)
      query_key_exp == Exp(qk)
      query_queue_exp == Exp(qq)
      denominator == RowSumConcat(query_key_exp, query_queue_exp)
      diags == Diagonal(query_key_exp)
      loss0 == NegMeanLog(diags, denominator)
      rc1 == Where(Triu(pos_matrix1, 1, 0))
      loss1 == NegMeanLog([n \in DOMAIN rc1 |-> query_key_exp[rc1[n][1]][rc1[n][2]]],
                          [n \in DOMAIN rc1 |-> denominator[rc1[n][1]]])
      rc2 == Where(pos_matrix2)
      loss2 == NegMeanLog([n \in DOMAIN rc2 |-> query_queue_exp[rc2[n][1]][rc2[n][2]]],
                          [n \in DOMAIN rc2 |-> denominator[rc2[n][1]]])
      has1 == Size(rc1) > 0
      has2 == Size(rc2) > 0
  IN [fn |-> "train_simclr",
      terms |-> <<loss0>> \o (IF has1 THEN <<loss1>> ELSE <<>>)
                  \o (IF has2 THEN <<loss2>> ELSE <<>>),
      num_loss |-> 1,
      denominator |-> denominator, rc1 |-> rc1, rc2 |-> rc2]

\* query_key and query_queue as MCPModel.forward computes them from the
\* normalised queries, keys and queue columns
McpArgs(q, kk, qcols, queue_heads, heads) ==
  [query_key |-> MatMulT(NormalizeRows(q), NormalizeRows(kk)),
   query_queue |-> MatMulT(NormalizeRows(q), NormalizeRows(qcols)),
   queue_heads |-> queue_heads,
   heads |-> heads]

InitMcp ==
  /\ IdleModel
  /\ \E B \in 1..MaxLossBatch :
       \E q \in [Range0(B) -> Vecs2], kk \in [Range0(B) -> Vecs2],
          qcols \in [Range0(QueueLen) -> Vecs2],
          queue_heads \in [Range0(QueueLen) -> Ids], heads \in [Range0(B) -> Ids] :
         args = McpArgs(q, kk, qcols, queue_heads, heads)
  /\ ret = None

CallMcpLossTrainCl ==
  /\ ret = None
  /\ ret' = mcp_loss_train_cl(args.query_key, args.query_queue, args.queue_heads, args.heads)
  /\ UNCHANGED <<mvars, args>>

CallMcpLossTrainSimclr ==
  /\ ret = None
  /\ ret' = mcp_loss_train_simclr(args.query_key, args.query_queue, args.queue_heads, args.heads)
  /\ UNCHANGED <<mvars, args>>

NextMcp == CallMcpLossTrainCl \/ CallMcpLossTrainSimclr

SpecMcp == InitMcp /\ [][NextMcp]_vars

\* ------------------------------------------------------------------ claims
\* the body of forward has run on the last batch
Called == pc \in {"stepped", "failed"} /\ err # "TypeError"

\* ... and reached the enqueue
Enqueuing == Called /\ err # "IndexError"

SameBatchSize(b) == \A n \in 1..Len(enqueued) : Size(enqueued[n]) = b

\* C1: after k enqueue calls of the same batch size b, b dividing
\* queue_size, on a fresh model the pointer is (k * b) mod queue_size.
C1_PointerAfterEnqueues ==
  \A b \in 1..MaxBatch :
    (QueueSize % b = 0 /\ SameBatchSize(b))
      => queue_ptr = (Len(enqueued) * b) % QueueSize

C1_Witness ==
  /\ Len(enqueued) >= 2
  /\ \E b \in 1..MaxBatch : QueueSize % b = 0 /\ SameBatchSize(b)
  /\ queue_ptr # 0

\* C2: after queue_size / b enqueue calls of b keys each the pointer is back
\* at 0, column block i holds the transposed keys of the i-th batch and no
\* column holds its initial random value.
C2_FullCycle ==
  \A b \in 1..MaxBatch :
    (QueueSize % b = 0 /\ SameBatchSize(b) /\ Len(enqueued) = QueueSize \div b)
      => /\ queue_ptr = 0
         /\ \A i \in Range0(QueueSize \div b) : \A j \in Range0(b) :
              \A h \in Range0(EmbedDim) :
                queue[h][i * b + j] = enqueued[i + 1][j][h]
         /\ \A c \in Range0(QueueSize) : \A h \in Range0(EmbedDim) :
              queue[h][c] # InitQueue[h][c]

C2_Witness ==
  \E b \in 1..MaxBatch :
    /\ b < QueueSize
    /\ QueueSize % b = 0
    /\ SameBatchSize(b)
    /\ Len(enqueued) = QueueSize \div b
    /\ queue_ptr = 0

\* C3: an enqueue whose batch size does not divide queue_size fails and
\* leaves the buffer and the pointer as they were before the call.
C3_IndivisibleFails ==
  (Enqueuing /\ QueueSize % Size(k) # 0)
    => /\ pc = "failed"
       /\ err = "AssertionError"
       /\ queue = pre.queue
       /\ queue_ptr = pre.queue_ptr

C3_Witness ==
  /\ err = "AssertionError"
  /\ QueueSize % Size(k) # 0
  /\ queue_ptr # 0
  /\ queue = pre.queue

\* C4: one _update_key_encoder call sets every key parameter to
\* m * key_old + (1 - m) * query and leaves the query parameters alone.
C4_MomentumUpdate ==
  Called =>
    /\ encoder_q = pre.encoder_q
    /\ \A p \in Range0(NumParams) :
         LET new == encoder_k[p]
             old == pre.encoder_k[p]
             qry == pre.encoder_q[p]
         IN new[1] * momentum[2] * old[2] * qry[2]
              = new[2] * (momentum[1] * old[1] * qry[2]
                          + (momentum[2] - momentum[1]) * qry[1] * old[2])

C4_Witness ==
  /\ Called
  /\ \A p \in Range0(NumParams) :
       pre.encoder_k[p] # pre.encoder_q[p] /\ encoder_k[p] # pre.encoder_k[p]

\* C5: for every shuffle permutation the un-shuffled key matrix has at row i
\* the key-encoder output for sample i of the second view.
C5_UnshuffleRestoresOrder ==
  Enqueuing =>
    /\ DOMAIN k = DOMAIN x2
    /\ \A i \in DOMAIN x2 : \A h \in Range0(EmbedDim) :
         /\ k[i][h].num.inp = x2[i]
         /\ k[i][h].num.enc = encoder_k
         /\ k[i][h].num.dim = h
    /\ \A i \in DOMAIN idx : idx[Argsort(idx)[i]] = i

C5_Witness ==
  /\ Enqueuing
  /\ Size(k) = 3
  /\ idx # Argsort(idx)
  /\ \A i, j \in DOMAIN x2 : i # j => x2[i] # x2[j]

SharedPairs(heads) ==
  {p \in (DOMAIN heads) \X (DOMAIN heads) : p[1] # p[2] /\ heads[p[1]] = heads[p[2]]}

\* C6: cmsc_loss divides by the number of terms it computed: the 2 diagonal
\* terms when no two different samples share an identity, and 4 terms (2
\* diagonal, 1 upper and 1 lower off-diagonal) when some pair does.
C6_CmscTermCount ==
  ret # None =>
    LET S == SharedPairs(args.heads)
        U == {p \in S : p[1] < p[2]}
        L == {p \in S : p[1] > p[2]}
    IN /\ ret.num_loss = Len(ret.terms)
       /\ ret.num_loss = IF S = {} THEN 2 ELSE 4
       /\ BagCardinality(ret.terms[1].mean) = Size(args.heads)
       /\ BagCardinality(ret.terms[2].mean) = Size(args.heads)
       /\ S # {} => /\ BagCardinality(ret.terms[3].mean) = Cardinality(U)
                    /\ BagCardinality(ret.terms[4].mean) = Cardinality(L)

C6_Witness ==
  /\ ret # None
  /\ Size(args.heads) = 4
  /\ args.heads[0] = args.heads[1]
  /\ args.heads[2] = args.heads[3]
  /\ args.heads[0] # args.heads[2]
  /\ ret.num_loss = 4

RangeOf(f) == {f[i] : i \in DOMAIN f}

\* C7: in mcp_loss every entry query_key[i,j], j # i, with identity[j] =
\* identity[i] is a numerator of the off-diagonal same-batch positive term,
\* for j < i as well as for j > i.
C7_AllSameIdentityColumnsPositive ==
  ret # None =>
    \A p \in SharedPairs(args.heads) : p \in RangeOf(ret.rc1)

\* C8: in mcp_loss the denominator of row i is the sum of the exponentiated
\* entries of row i over all columns of query_key and of query_queue.
C8_DenominatorOverKeysAndQueue ==
  ret # None =>
    \A i \in DOMAIN args.heads :
      ret.denominator[i] =
        BagOf([j \in DOMAIN args.heads |-> <<"exp", RatDiv(args.query_key[i][j], Tao)>>])
          (+) BagOf([c \in DOMAIN args.queue_heads |->
                       <<"exp", RatDiv(args.query_queue[i][c], Tao)>>])

\* C9: for train_cl.mcp_loss on 2 samples of distinct identities and a queue
\* without either identity, the loss is the single diagonal term with
\* numerator exp(query_key[i,i]/tau) for row i, divided by 1.
C9_SingleDiagonalTerm ==
  (/\ ret # None
   /\ ret.fn = "train_cl"
   /\ Size(args.heads) = 2
   /\ args.heads[0] # args.heads[1]
   /\ \A c \in DOMAIN args.queue_heads : args.queue_heads[c] \notin RangeOf(args.heads))
    => /\ ret.num_loss = 1
       /\ Len(ret.terms) = 1
       /\ ret.terms[1].mean =
            BagOf([i \in DOMAIN args.heads |->
                     [num |-> SetToBag({<<"exp", RatDiv(args.query_key[i][i], Tao)>>}) (+) Eps,
                      den |-> ret.denominator[i] (+) Eps]])

Swapped(outputs) == [v \in Range0(2) |-> outputs[1 - v]]

\* C10: swapping the two views does not change simclr_loss.
C10_SimclrSwapSymmetric ==
  ret # None => LossValue(ret) = LossValue(simclr_loss(Swapped(args.outputs)))

C10_Witness ==
  /\ ret # None
  /\ Size(args.outputs[0]) = 2
  /\ ret.terms[1] # ret.terms[2]
  /\ simclr_loss(Swapped(args.outputs)).terms[1] = ret.terms[2]

\* the identity (head) of a dataset sample: two samples per record
HeadOf(sample) == ((sample - 1) \div 2) + 1

StepTaken == pc \in {"stepped", "failed"}

\* C11: a forward pass on a batch whose view count is not 2 fails instead of
\* producing logits; 3 or more views are rejected, not ignored.
C11_WrongViewCountFails ==
  (StepTaken /\ nviews # 2) => (pc = "failed" /\ crit_args = None)

\* C12: loading a saved state into a freshly constructed model gives the
\* saved queue buffer and the saved queue pointer.
C12_CheckpointRestoresQueue ==
  pc = "resumed" =>
    /\ queue = checkpoint.saved.queue
    /\ queue_ptr = checkpoint.saved.queue_ptr

C12_Witness ==
  /\ pc = "resumed"
  /\ queue_ptr # 0
  /\ queue_ptr = checkpoint.saved.queue_ptr
  /\ queue # InitQueue

ColumnsChanged ==
  {c \in Range0(QueueSize) : \E h \in Range0(EmbedDim) : queue[h][c] # pre.queue[h][c]}

\* C13: when every enqueue's batch size divides queue_size, each write lies
\* inside the buffer (pointer + batch_size <= queue_size) and overwrites
\* exactly batch_size columns.
C13_WriteInsideBuffer ==
  (Enqueuing /\ QueueSize % Size(k) = 0)
    => /\ pre.queue_ptr + Size(k) <= QueueSize
       /\ ColumnsChanged = pre.queue_ptr..(pre.queue_ptr + Size(k) - 1)

\* C14: a forward call that fails leaves the key parameters, the queue
\* buffer and the queue pointer as they were before the call.
C14_FailedForwardChangesNothing ==
  (Called /\ pc = "failed")
    => /\ encoder_k = pre.encoder_k
       /\ queue = pre.queue
       /\ queue_ptr = pre.queue_ptr

\* new = m * old + (1 - m) * qry, cross-multiplied
MomentumStepOf(new, old, qry, m) ==
  new[1] * m[2] * old[2] * qry[2]
    = new[2] * (m[1] * old[1] * qry[2] + (m[2] - m[1]) * qry[1] * old[2])

\* C15: the keys of a forward pass are computed with the key parameters
\* after exactly one momentum update of that pass.
C15_KeysUseUpdatedEncoder ==
  Enqueuing =>
    \A i \in DOMAIN k : \A h \in Range0(EmbedDim) : \A p \in Range0(NumParams) :
      MomentumStepOf(k[i][h].num.enc[p], pre.encoder_k[p], pre.encoder_q[p], momentum)

C15_Witness ==
  /\ Enqueuing
  /\ pc = "stepped"
  /\ \A p \in Range0(NumParams) : encoder_k[p] # pre.encoder_k[p]
  /\ \A i \in DOMAIN k : k[i][0].num.enc = encoder_k

\* C16: the key parameters change only in a forward pass (its momentum
\* update): backward and the optimizer step leave them unchanged.
C16_KeyParamsOnlyByMomentum ==
  [][nsteps' = nsteps => encoder_k' = encoder_k]_vars

C16_Witness ==
  /\ pc = "ready"
  /\ nsteps >= 1
  /\ encoder_k = AdamStep(Snapshot, CHOOSE d \in ParamDeltas : TRUE).encoder_k
  /\ \A p \in Range0(NumParams) : encoder_q[p] # pre.encoder_q[p]
  /\ \A p \in Range0(NumParams) : encoder_k[p] # encoder_q[p]

\* C17: at every mcp training step the loss receives queue identity labels
\* that match the queue, column for column, as it was when query_queue was
\* computed.
C17_QueueHeadsMatchQueue ==
  (task = "mcp" /\ StepTaken)
    => /\ pc = "stepped"
       /\ Len(crit_args) = 4
       /\ \A c \in Range0(QueueSize) :
            "num" \in DOMAIN pre.queue[0][c]
              => crit_args[3][c] = HeadOf(pre.queue[0][c].num.inp.sample)

====
